---- MODULE Spec2Model ----
(***************************************************************************)
(* Model of the Kong Konnect request client (src/src/api.ts, class         *)
(* KongApi) and of the tool catalog (src/src/tools.ts, tools).             *)
(*                                                                         *)
(* A JavaScript string is a string; concatenation, startsWith, replace,     *)
(* substring and encodeURIComponent are computed character by character,   *)
(* as the code computes them.  A value that may be undefined is a record   *)
(* [def, v]; a JSON value is a record tagged by its kind.                  *)
(*                                                                         *)
(* Numbers are non-negative integers.  An object holds string and number   *)
(* fields only; arrays and nested objects are not modelled.  axios is the  *)
(* environment: it resolves a request with any response data, or rejects   *)
(* it with a response, with a request and no response, or with neither.    *)
(*                                                                         *)
(* Spec       calls issued concurrently on one client                      *)
(* SpecQuery  one caller, every query-building operation and argument      *)
(* SpecClient one caller, every configuration, body and kind of failure,   *)
(*            and the host listing the catalog                             *)
(***************************************************************************)
EXTENDS Integers, Sequences, FiniteSets, TLC

VARIABLES
    baseUrl,     \* this.baseUrl
    apiKey,      \* this.apiKey
    built,       \* the configuration as the constructor left it, and its warning
    calls,       \* call id -> the call's position, arguments, request and result
    catalogs     \* the lists the invocations of tools() have returned so far

vars == <<baseUrl, apiKey, built, calls, catalogs>>

----------------------------------------------------------------------------
(* Strings *)

Min(a, b) == IF a < b THEN a ELSE b

\* s.startsWith(p)
StartsWith(s, p) == Len(p) <= Len(s) /\ SubSeq(s, 1, Len(p)) = p

\* s.substring(0, n)
Substring0(s, n) == SubSeq(s, 1, Min(n, Len(s)))

\* s.indexOf(p), 1-based, 0 when p does not occur
IndexOf(s, p) ==
    LET hits == {i \in 1..(Len(s) - Len(p) + 1) : SubSeq(s, i, i + Len(p) - 1) = p}
    IN  IF hits = {} THEN 0 ELSE CHOOSE i \in hits : \A j \in hits : i <= j

Includes(s, p) == Len(p) = 0 \/ IndexOf(s, p) > 0

\* s.replace(p, r) with a string pattern: the first occurrence only
ReplaceFirst(s, p, r) ==
    LET i == IndexOf(s, p)
    IN  IF i = 0 THEN s
        ELSE SubSeq(s, 1, i - 1) \o r \o SubSeq(s, i + Len(p), Len(s))

\* the i-th character of s
At(s, i) == SubSeq(s, i, i)

Digit(d) == At("0123456789", d + 1)

\* `${n}` for a non-negative integer
RECURSIVE NumToStr(_)
NumToStr(n) == IF n < 10 THEN Digit(n) ELSE NumToStr(n \div 10) \o Digit(n % 10)

\* encodeURIComponent: A-Z a-z 0-9 - _ . ! ~ * ' ( ) are kept, every other
\* character becomes %XX
Unreserved ==
    {"a","b","c","d","e","f","g","h","i","j","k","l","m","n","o","p","q","r","s",
     "t","u","v","w","x","y","z","0","1","2","3","4","5","6","7","8","9",
     "-","_",".","!","~","*","'","(",")"}

EncodeChar(ch) ==
    CASE ch \in Unreserved -> ch
      [] ch = "&" -> "%26"
      [] ch = "=" -> "%3D"
      [] ch = "#" -> "%23"
      [] ch = "?" -> "%3F"
      [] ch = " " -> "%20"
      [] ch = "/" -> "%2F"
      [] ch = "%" -> "%25"
      [] ch = "[" -> "%5B"
      [] ch = "]" -> "%5D"

RECURSIVE encodeURIComponent(_)
encodeURIComponent(s) ==
    IF s = "" THEN "" ELSE EncodeChar(At(s, 1)) \o encodeURIComponent(SubSeq(s, 2, Len(s)))

----------------------------------------------------------------------------
(* Optional arguments and JSON values *)

\* an argument that was not passed (undefined), by its declared type
UndefStr  == [def |-> FALSE, v |-> ""]
UndefNum  == [def |-> FALSE, v |-> 0]
UndefBool == [def |-> FALSE, v |-> FALSE]
Given(x)  == [def |-> TRUE, v |-> x]

\* if (s) for an optional string: undefined and "" are falsy
TruthyStr(s) == s.def /\ s.v # ""
\* if (n) for an optional number: undefined and 0 are falsy
TruthyNum(n) == n.def /\ n.v # 0

\* a parameter default, `p = d`: d when the argument is undefined
Default(x, d) == IF x.def THEN x.v ELSE d

\* a || b || c on optional strings: the first truthy one, else the last
OrElse(a, b) == IF TruthyStr(a) THEN a ELSE b

\* A JSON value (or undefined), tagged by kind.  s, n, b hold a string, a
\* number, a boolean; o holds an object's fields in insertion order, each
\* field a key with a string or a number as its value.
JUndefined == [t |-> "undefined", s |-> "", n |-> 0, b |-> FALSE, o |-> <<>>]
JNull      == [t |-> "null",      s |-> "", n |-> 0, b |-> FALSE, o |-> <<>>]
JBool(x)   == [t |-> "boolean",   s |-> "", n |-> 0, b |-> x,     o |-> <<>>]
JNum(x)    == [t |-> "number",    s |-> "", n |-> x, b |-> FALSE, o |-> <<>>]
JStr(x)    == [t |-> "string",    s |-> x,    n |-> 0, b |-> FALSE, o |-> <<>>]
JObj(fs)   == [t |-> "object",    s |-> "", n |-> 0, b |-> FALSE, o |-> fs]
FStr(k, x) == [k |-> k, t |-> "string", s |-> x,    n |-> 0]
FNum(k, x) == [k |-> k, t |-> "number", s |-> "", n |-> x]

\* typeof x
TypeOf(j) == IF j.t = "null" THEN "object" ELSE j.t

\* x ? ... : ...
Truthy(j) ==
    CASE j.t = "object"  -> TRUE
      [] j.t = "string"  -> j.s # ""
      [] j.t = "number"  -> j.n # 0
      [] j.t = "boolean" -> j.b
      [] OTHER           -> FALSE

\* JSON.stringify of a string: quoted, with " and \ escaped
RECURSIVE EscapeJson(_)
EscapeJson(s) ==
    IF s = "" THEN ""
    ELSE (IF At(s, 1) \in {"\"", "\\"} THEN "\\" \o At(s, 1) ELSE At(s, 1))
         \o EscapeJson(SubSeq(s, 2, Len(s)))

QuoteJson(s) == "\"" \o EscapeJson(s) \o "\""

StringifyField(f) ==
    QuoteJson(f.k) \o ":" \o (IF f.t = "string" THEN QuoteJson(f.s) ELSE NumToStr(f.n))

RECURSIVE StringifyFields(_)
StringifyFields(fs) ==
    IF fs = <<>> THEN ""
    ELSE StringifyField(Head(fs))
         \o (IF Tail(fs) = <<>> THEN "" ELSE "," \o StringifyFields(Tail(fs)))

\* JSON.stringify(x) without indentation, for the values that reach it
JsonStringify(j) ==
    CASE j.t = "object"  -> "{" \o StringifyFields(j.o) \o "}"
      [] j.t = "string"  -> QuoteJson(j.s)
      [] j.t = "number"  -> NumToStr(j.n)
      [] j.t = "boolean" -> IF j.b THEN "true" ELSE "false"
      [] OTHER           -> "null"

\* obj.message: the value of the object's message field, undefined without one
MessageOf(j) ==
    LET hits == {i \in 1..Len(j.o) : j.o[i].k = "message"}
    IN  IF hits = {} THEN JUndefined
        ELSE LET f == j.o[CHOOSE i \in hits : \A k \in hits : k <= i]
             IN  IF f.t = "string" THEN JStr(f.s) ELSE JNum(f.n)

\* `${x}` for a string or a number
ToText(j) == IF j.t = "string" THEN j.s ELSE NumToStr(j.n)

----------------------------------------------------------------------------
(* KongApi: construction *)

US == "us"

\* constructor, line 30: options.apiRegion || process.env.KONNECT_REGION || API_REGIONS.US
ResolveRegion(optRegion, envRegion) == OrElse(optRegion, OrElse(envRegion, Given(US))).v

\* constructor, line 31
BaseUrlOf(region) == "https://" \o region \o ".api.konghq.com/v2"

\* constructor, line 32: options.apiKey || process.env.KONNECT_ACCESS_TOKEN || ""
ResolveKey(optKey, envKey) == OrElse(optKey, OrElse(envKey, Given(""))).v

----------------------------------------------------------------------------
(* KongApi.kongRequest *)

V3 == "/v3"
V2 == "/v2"

\* lines 45-50: the base URL a request to `endpoint` uses
EffectiveBase(base, endpoint) ==
    IF StartsWith(endpoint, V3) THEN ReplaceFirst(base, V2, "") ELSE base

\* line 52
RequestUrl(base, endpoint) == EffectiveBase(base, endpoint) \o endpoint

\* lines 55-59
RequestHeaders(key) ==
    [Authorization |-> "Bearer " \o key,
     ContentType   |-> "application/json",
     Accept        |-> "application/json"]

\* line 65: data ? data : undefined
RequestData(data) == IF Truthy(data) THEN data ELSE JUndefined

\* lines 61-66: the AxiosRequestConfig handed to axios
RequestConfig(base, key, endpoint, method, data) ==
    [method  |-> method,
     url     |-> RequestUrl(base, endpoint),
     headers |-> RequestHeaders(key),
     data    |-> RequestData(data)]

ExcerptLimit == 200

ApiErrorPrefix == "API Error (Status "
NetworkErrorText ==
    "Network Error: No response received from Kong API. Please check your network connection and API endpoint configuration."
RequestErrorPrefix == "Request Error: "
RequestErrorSuffix == ". Please check your request parameters and try again."
NullMessageTypeError == "Cannot read properties of null (reading 'message')"
UndefinedDataTypeError == "Cannot read properties of undefined (reading 'substring')"

NoError == [name |-> "", message |-> ""]

\* What axios rejects with: error.response (status, data) when a response
\* arrived, error.request when the request was sent, error.message always.
AxiosError(hasResponse, status, data, hasRequest, message) ==
    [response |-> hasResponse, status |-> status, data |-> data,
     request |-> hasRequest, message |-> message]

\* the error details embedding a plain-text body whole
ErrorDetails_untruncated(errorData) ==
    IF TypeOf(errorData) = "object"
    THEN LET m == MessageOf(errorData)
         IN  ": " \o (IF Truthy(m) THEN ToText(m) ELSE JsonStringify(errorData))
    ELSE IF TypeOf(errorData) = "string"
    THEN ": " \o errorData.s
    ELSE ""

\* lines 80-85: the text appended after `API Error (Status N)`
ErrorDetails(errorData) ==
    IF TypeOf(errorData) = "object"
    THEN LET m == MessageOf(errorData)
         IN  ": " \o (IF Truthy(m) THEN ToText(m) ELSE JsonStringify(errorData))
    ELSE IF TypeOf(errorData) = "string"
    THEN ": " \o Substring0(errorData.s, ExcerptLimit)
    ELSE ""

\* lines 73-93: the error the catch block throws for what axios rejected with.
\* Reading .message of a null body (line 81) throws a TypeError, which leaves
\* the catch block instead of the Error built on line 87.
CatchError(error) ==
    IF error.response
    THEN IF error.data.t = "null"
         THEN [name |-> "TypeError", message |-> NullMessageTypeError]
         ELSE [name |-> "Error",
               message |-> ApiErrorPrefix \o NumToStr(error.status) \o ")"
                           \o ErrorDetails(error.data)]
    ELSE IF error.request
    THEN [name |-> "Error", message |-> NetworkErrorText]
    ELSE [name |-> "Error",
          message |-> RequestErrorPrefix \o error.message \o RequestErrorSuffix]

----------------------------------------------------------------------------
(* KongApi: the operations that build a query string *)

DefaultPageSize == 10
DefaultSize == 100

BoolText(b) == IF b THEN "true" ELSE "false"

\* The arguments of a call: id is the required controlPlaneId or groupId, the
\* others are the optional arguments; pageAfter also holds offset.
NoArgs ==
    [id |-> "", pageSize |-> UndefNum, pageNumber |-> UndefNum,
     filterName |-> UndefStr, filterClusterType |-> UndefStr,
     filterFlag |-> UndefBool, labels |-> UndefStr, sort |-> UndefStr,
     cursor |-> UndefStr, applicationId |-> UndefStr, apiId |-> UndefStr,
     status |-> UndefStr]

\* if (cond) { endpoint += text }
AppendIf(endpoint, cond, text) == IF cond THEN endpoint \o text ELSE endpoint

\* lines 111-141
listControlPlanes(a) ==
    LET e0 == "/control-planes?page[size]=" \o NumToStr(Default(a.pageSize, DefaultPageSize))
        e1 == AppendIf(e0, TruthyNum(a.pageNumber),
                       "&page[number]=" \o NumToStr(a.pageNumber.v))
        e2 == AppendIf(e1, TruthyStr(a.filterName),
                       "&filter[name][contains]=" \o encodeURIComponent(a.filterName.v))
        e3 == AppendIf(e2, TruthyStr(a.filterClusterType),
                       "&filter[cluster_type][eq]=" \o encodeURIComponent(a.filterClusterType.v))
        e4 == AppendIf(e3, a.filterFlag.def,
                       "&filter[cloud_gateway]=" \o BoolText(a.filterFlag.v))
        e5 == AppendIf(e4, TruthyStr(a.labels),
                       "&labels=" \o encodeURIComponent(a.labels.v))
    IN  AppendIf(e5, TruthyStr(a.sort), "&sort=" \o encodeURIComponent(a.sort.v))

\* lines 147-155
listControlPlaneGroupMemberships(a) ==
    LET e0 == "/control-planes/" \o a.id \o "/group-memberships?page[size]="
              \o NumToStr(Default(a.pageSize, DefaultPageSize))
    IN  AppendIf(e0, TruthyStr(a.cursor), "&page[after]=" \o a.cursor.v)

\* lines 162-200: listServices, listRoutes, listConsumers and listPlugins differ
\* only in the entity name
listCoreEntities(entity, a) ==
    LET e0 == "/control-planes/" \o a.id \o "/core-entities/" \o entity
              \o "?size=" \o NumToStr(Default(a.pageSize, DefaultSize))
    IN  AppendIf(e0, TruthyStr(a.cursor), "&offset=" \o a.cursor.v)

listServices(a)  == listCoreEntities("services", a)
listRoutes(a)    == listCoreEntities("routes", a)
listConsumers(a) == listCoreEntities("consumers", a)
listPlugins(a)   == listCoreEntities("plugins", a)

\* lines 203-231
listDevPortalApis(a) ==
    LET e0 == "/v3/apis?page[size]=" \o NumToStr(Default(a.pageSize, DefaultPageSize))
        e1 == AppendIf(e0, TruthyNum(a.pageNumber),
                       "&page[number]=" \o NumToStr(a.pageNumber.v))
        e2 == AppendIf(e1, TruthyStr(a.filterName),
                       "&filter[name][contains]=" \o encodeURIComponent(a.filterName.v))
        e3 == AppendIf(e2, a.filterFlag.def,
                       "&filter[published]=" \o BoolText(a.filterFlag.v))
    IN  AppendIf(e3, TruthyStr(a.sort), "&sort=" \o encodeURIComponent(a.sort.v))

\* lines 248-260
listDevPortalPortals(a) ==
    LET e0 == "/v3/portals?page[size]=" \o NumToStr(Default(a.pageSize, DefaultPageSize))
    IN  AppendIf(e0, TruthyNum(a.pageNumber),
                 "&page[number]=" \o NumToStr(a.pageNumber.v))

\* lines 262-285
listDevPortalApplications(a) ==
    LET e0 == "/v3/applications?page[size]=" \o NumToStr(Default(a.pageSize, DefaultPageSize))
        e1 == AppendIf(e0, TruthyNum(a.pageNumber),
                       "&page[number]=" \o NumToStr(a.pageNumber.v))
        e2 == AppendIf(e1, TruthyStr(a.filterName),
                       "&filter[name][contains]=" \o encodeURIComponent(a.filterName.v))
    IN  AppendIf(e2, TruthyStr(a.sort), "&sort=" \o encodeURIComponent(a.sort.v))

\* listDevPortalSubscriptions appending the status filter before the API filter
listDevPortalSubscriptions_statusFirst(a) ==
    LET e0 == "/v3/subscriptions?page[size]=" \o NumToStr(Default(a.pageSize, DefaultPageSize))
        e1 == AppendIf(e0, TruthyNum(a.pageNumber),
                       "&page[number]=" \o NumToStr(a.pageNumber.v))
        e2 == AppendIf(e1, TruthyStr(a.applicationId),
                       "&filter[application.id][eq]=" \o a.applicationId.v)
        e3 == AppendIf(e2, TruthyStr(a.status),
                       "&filter[status][eq]=" \o a.status.v)
        e4 == AppendIf(e3, TruthyStr(a.apiId),
                       "&filter[api.id][eq]=" \o a.apiId.v)
    IN  AppendIf(e4, TruthyStr(a.sort), "&sort=" \o encodeURIComponent(a.sort.v))

\* lines 306-339
listDevPortalSubscriptions(a) ==
    LET e0 == "/v3/subscriptions?page[size]=" \o NumToStr(Default(a.pageSize, DefaultPageSize))
        e1 == AppendIf(e0, TruthyNum(a.pageNumber),
                       "&page[number]=" \o NumToStr(a.pageNumber.v))
        e2 == AppendIf(e1, TruthyStr(a.applicationId),
                       "&filter[application.id][eq]=" \o a.applicationId.v)
        e3 == AppendIf(e2, TruthyStr(a.apiId),
                       "&filter[api.id][eq]=" \o a.apiId.v)
        e4 == AppendIf(e3, TruthyStr(a.status),
                       "&filter[status][eq]=" \o a.status.v)
    IN  AppendIf(e4, TruthyStr(a.sort), "&sort=" \o encodeURIComponent(a.sort.v))

\* lines 233-246: createDevPortalApplication posts {name, description}
ApplicationBody(name, description) ==
    JObj(<<FStr("name", name), FStr("description", description)>>)

----------------------------------------------------------------------------
(* tools(): the catalog *)

\* prompts.<fn>() and parameters.<fn>(): the description and the parameter
\* schema of a tool, each the fixed result of the tool's own function
prompts(fn)    == <<"prompt", fn>>
parameters(fn) == <<"schema", fn>>

Tool(method, name, fn, category) ==
    [method |-> method, name |-> name, description |-> prompts(fn),
     parameters |-> parameters(fn), category |-> category]

\* a catalog that lists one method twice and splits a category
tools_duplicated ==
    << Tool("query_api_requests", "Query API Requests", "queryApiRequests", "analytics"),
       Tool("list_services", "List Services", "listServices", "configuration"),
       Tool("query_api_requests", "Query API Requests", "queryApiRequests", "analytics") >>

tools ==
    << Tool("query_api_requests", "Query API Requests", "queryApiRequests", "analytics"),
       Tool("get_consumer_requests", "Get Consumer Requests", "getConsumerRequests", "analytics"),
       Tool("list_services", "List Services", "listServices", "configuration"),
       Tool("list_routes", "List Routes", "listRoutes", "configuration"),
       Tool("list_consumers", "List Consumers", "listConsumers", "configuration"),
       Tool("list_plugins", "List Plugins", "listPlugins", "configuration"),
       Tool("list_control_planes", "List Control Planes", "listControlPlanes", "control_planes"),
       Tool("get_control_plane", "Get Control Plane", "getControlPlane", "control_planes"),
       Tool("list_control_plane_group_memberships", "List Control Plane Group Memberships",
            "listControlPlaneGroupMemberships", "control_planes"),
       Tool("check_control_plane_group_membership", "Check Control Plane Group Membership",
            "checkControlPlaneGroupMembership", "control_planes"),
       Tool("list_apis", "List APIs", "listApis", "dev_portal"),
       Tool("list_portals", "List Portals", "listPortals", "dev_portal"),
       Tool("subscribe_to_api", "Subscribe to API", "subscribeToApi", "dev_portal"),
       Tool("generate_api_key", "Generate API Key", "generateApiKey", "dev_portal"),
       Tool("list_applications", "List Applications", "listApplications", "dev_portal"),
       Tool("list_subscriptions", "List Subscriptions", "listSubscriptions", "dev_portal") >>

----------------------------------------------------------------------------
(* The state machine *)

MaxCalls == 2
MaxCatalogs == 2

NoRequest ==
    [method |-> "", url |-> "",
     headers |-> [Authorization |-> "", ContentType |-> "", Accept |-> ""],
     data |-> JUndefined]

NoCause == AxiosError(FALSE, 0, JUndefined, FALSE, "")

\* A call that has not been made: pc is idle, awaiting (suspended at
\* `await axios(config)`), returned or failed.
IdleCall ==
    [pc |-> "idle", op |-> "", args |-> NoArgs, endpoint |-> "", method |-> "",
     data |-> JUndefined, request |-> NoRequest, cause |-> NoCause,
     result |-> JUndefined, error |-> NoError]

\* kongRequest stripping the version segment in the field itself
StoredBaseUrl_shared(base, endpoint) == EffectiveBase(base, endpoint)

\* this.baseUrl after the synchronous part of kongRequest (lines 45-50): the
\* function assigns only its local `let baseUrl`, the field is left alone
StoredBaseUrl(base, endpoint) == base

\* line 42: `data: any = null`
DataParam(data) == IF data.t = "undefined" THEN JNull ELSE data

\* lines 42-69: an operation builds `endpoint` and kongRequest runs up to its
\* await: the request is handed to axios
Invoke(c, op, a, endpoint, method, data) ==
    /\ calls[c].pc = "idle"
    /\ calls' = [calls EXCEPT ![c] =
                    [IdleCall EXCEPT !.pc = "awaiting", !.op = op, !.args = a,
                        !.endpoint = endpoint, !.method = method, !.data = data,
                        !.request = RequestConfig(baseUrl, apiKey, endpoint, method,
                                                  DataParam(data))]]
    /\ baseUrl' = StoredBaseUrl(baseUrl, endpoint)
    /\ UNCHANGED <<apiKey, built, catalogs>>

\* The values the arguments of a specification's calls are drawn from.
QueryDomain ==
    [ids    |-> {"c1"},
     sizes  |-> {UndefNum, Given(25)},
     pages  |-> {UndefNum, Given(0), Given(2)},
     flags  |-> {UndefBool, Given(FALSE), Given(TRUE)},
     texts  |-> {UndefStr, Given(""), Given("a"), Given("&sort=z")}]

SmallDomain ==
    [ids    |-> {"c1"},
     sizes  |-> {UndefNum},
     pages  |-> {UndefNum, Given(2)},
     flags  |-> {UndefBool},
     texts  |-> {UndefStr}]

\* a direct call kongRequest(endpoint, method, data)
KongRequest(c, requests) ==
    \E r \in requests : Invoke(c, "kongRequest", NoArgs, r[1], r[2], r[3])

ListControlPlanes(c, D) ==
    \E ps \in D.sizes, pn \in D.pages, fn \in D.texts, ct \in D.texts,
       cg \in D.flags, lb \in D.texts, so \in D.texts :
        LET a == [NoArgs EXCEPT !.pageSize = ps, !.pageNumber = pn, !.filterName = fn,
                      !.filterClusterType = ct, !.filterFlag = cg, !.labels = lb,
                      !.sort = so]
        IN  Invoke(c, "listControlPlanes", a, listControlPlanes(a), "GET", JUndefined)

ListControlPlaneGroupMemberships(c, D) ==
    \E id \in D.ids, ps \in D.sizes, pa \in D.texts :
        LET a == [NoArgs EXCEPT !.id = id, !.pageSize = ps, !.cursor = pa]
        IN  Invoke(c, "listControlPlaneGroupMemberships", a,
                   listControlPlaneGroupMemberships(a), "GET", JUndefined)

ListServices(c, D) ==
    \E id \in D.ids, sz \in D.sizes, off \in D.texts :
        LET a == [NoArgs EXCEPT !.id = id, !.pageSize = sz, !.cursor = off]
        IN  Invoke(c, "listServices", a, listServices(a), "GET", JUndefined)

ListRoutes(c, D) ==
    \E id \in D.ids, sz \in D.sizes, off \in D.texts :
        LET a == [NoArgs EXCEPT !.id = id, !.pageSize = sz, !.cursor = off]
        IN  Invoke(c, "listRoutes", a, listRoutes(a), "GET", JUndefined)

ListConsumers(c, D) ==
    \E id \in D.ids, sz \in D.sizes, off \in D.texts :
        LET a == [NoArgs EXCEPT !.id = id, !.pageSize = sz, !.cursor = off]
        IN  Invoke(c, "listConsumers", a, listConsumers(a), "GET", JUndefined)

ListPlugins(c, D) ==
    \E id \in D.ids, sz \in D.sizes, off \in D.texts :
        LET a == [NoArgs EXCEPT !.id = id, !.pageSize = sz, !.cursor = off]
        IN  Invoke(c, "listPlugins", a, listPlugins(a), "GET", JUndefined)

ListDevPortalApis(c, D) ==
    \E id \in D.ids, ps \in D.sizes, pn \in D.pages, fn \in D.texts,
       fp \in D.flags, so \in D.texts :
        LET a == [NoArgs EXCEPT !.id = id, !.pageSize = ps, !.pageNumber = pn,
                      !.filterName = fn, !.filterFlag = fp, !.sort = so]
        IN  Invoke(c, "listDevPortalApis", a, listDevPortalApis(a), "GET", JUndefined)

ListDevPortalPortals(c, D) ==
    \E ps \in D.sizes, pn \in D.pages :
        LET a == [NoArgs EXCEPT !.pageSize = ps, !.pageNumber = pn]
        IN  Invoke(c, "listDevPortalPortals", a, listDevPortalPortals(a), "GET", JUndefined)

ListDevPortalApplications(c, D) ==
    \E id \in D.ids, ps \in D.sizes, pn \in D.pages, fn \in D.texts, so \in D.texts :
        LET a == [NoArgs EXCEPT !.id = id, !.pageSize = ps, !.pageNumber = pn,
                      !.filterName = fn, !.sort = so]
        IN  Invoke(c, "listDevPortalApplications", a, listDevPortalApplications(a),
                   "GET", JUndefined)

ListDevPortalSubscriptions(c, D) ==
    \E id \in D.ids, app \in D.texts, api \in D.texts, ps \in D.sizes,
       pn \in D.pages, st \in D.texts, so \in D.texts :
        LET a == [NoArgs EXCEPT !.id = id, !.applicationId = app, !.apiId = api,
                      !.pageSize = ps, !.pageNumber = pn, !.status = st, !.sort = so]
        IN  Invoke(c, "listDevPortalSubscriptions", a, listDevPortalSubscriptions(a),
                   "GET", JUndefined)

\* lines 233-246
CreateDevPortalApplication(c, D) ==
    \E id \in D.ids :
        Invoke(c, "createDevPortalApplication", [NoArgs EXCEPT !.id = id],
               "/v3/applications", "POST", ApplicationBody("app", "d"))

\* lines 69-72: axios resolves and kongRequest returns response.data.  Line 71
\* logs JSON.stringify(response.data).substring(0, 500): for data that is
\* undefined JSON.stringify returns undefined, .substring throws a TypeError
\* inside the try block, and the catch block turns it into a request error.
Resolve(c, results) ==
    /\ calls[c].pc = "awaiting"
    /\ \E data \in results :
          IF data.t = "undefined"
          THEN LET thrown == AxiosError(FALSE, 0, JUndefined, FALSE, UndefinedDataTypeError)
               IN  calls' = [calls EXCEPT ![c].pc = "failed", ![c].cause = thrown,
                                          ![c].error = CatchError(thrown)]
          ELSE calls' = [calls EXCEPT ![c].pc = "returned", ![c].result = data]
    /\ UNCHANGED <<baseUrl, apiKey, built, catalogs>>

\* lines 73-93: axios rejects and the catch block throws
Reject(c, error) ==
    /\ calls[c].pc = "awaiting"
    /\ calls' = [calls EXCEPT ![c].pc = "failed", ![c].cause = error,
                              ![c].error = CatchError(error)]
    /\ UNCHANGED <<baseUrl, apiKey, built, catalogs>>

\* the server answered with a status outside 2xx
RejectWithResponse(c, statuses, bodies) ==
    \E status \in statuses, body \in bodies :
        Reject(c, AxiosError(TRUE, status, body, TRUE,
                             "Request failed with status code " \o NumToStr(status)))

\* the request was sent and no response arrived
RejectNoResponse(c) ==
    Reject(c, AxiosError(FALSE, 0, JUndefined, TRUE, "Network Error"))

\* the request could not be sent
RejectNotSent(c) ==
    Reject(c, AxiosError(FALSE, 0, JUndefined, FALSE, "Invalid URL"))

\* the caller has taken the call's result or error: the call is over
Settle(c) ==
    /\ calls[c].pc \in {"returned", "failed"}
    /\ calls' = [calls EXCEPT ![c] = IdleCall]
    /\ UNCHANGED <<baseUrl, apiKey, built, catalogs>>

\* tools.ts lines 13-141: an invocation of tools() returns a new list
ListTools ==
    /\ Len(catalogs) < MaxCatalogs
    /\ catalogs' = Append(catalogs, tools)
    /\ UNCHANGED <<baseUrl, apiKey, built, calls>>

\* the host drops the lists it holds
DropCatalogs ==
    /\ catalogs # <<>>
    /\ catalogs' = <<>>
    /\ UNCHANGED <<baseUrl, apiKey, built, calls>>

\* lines 28-37: the state the constructor leaves, for the given options and
\* environment
Construct(optRegion, envRegion, optKey, envKey, ids) ==
    /\ baseUrl = BaseUrlOf(ResolveRegion(optRegion, envRegion))
    /\ apiKey = ResolveKey(optKey, envKey)
    /\ built = [region |-> ResolveRegion(optRegion, envRegion), baseUrl |-> baseUrl,
                apiKey |-> apiKey, warned |-> (apiKey = "")]
    /\ calls = [c \in ids |-> IdleCall]
    /\ catalogs = <<>>

----------------------------------------------------------------------------
(* Spec: calls issued concurrently on one client *)

AnObject == JObj(<<FStr("message", "Unauthorized")>>)

ConcurrentRequests ==
    {<<"/v3/apis", "GET", JUndefined>>, <<"/control-planes", "GET", JUndefined>>}

Init ==
    \E optRegion \in {UndefStr, Given("eu")}, optKey \in {UndefStr, Given("k")} :
        Construct(optRegion, UndefStr, optKey, UndefStr, 1..MaxCalls)

Next ==
    \/ \E c \in DOMAIN calls : KongRequest(c, ConcurrentRequests)
    \/ \E c \in DOMAIN calls : ListDevPortalPortals(c, SmallDomain)
    \/ \E c \in DOMAIN calls : ListServices(c, SmallDomain)
    \/ \E c \in DOMAIN calls : Resolve(c, {AnObject})
    \/ \E c \in DOMAIN calls : RejectWithResponse(c, {401}, {AnObject})
    \/ \E c \in DOMAIN calls : RejectNoResponse(c)
    \/ \E c \in DOMAIN calls : Settle(c)

Spec == Init /\ [][Next]_vars

----------------------------------------------------------------------------
(* SpecQuery: one caller, every query-building operation, every combination
   of its optional arguments *)

InitQuery == Construct(UndefStr, UndefStr, Given("k"), UndefStr, {1})

NextQuery ==
    \/ \E c \in DOMAIN calls : ListControlPlanes(c, QueryDomain)
    \/ \E c \in DOMAIN calls : ListControlPlaneGroupMemberships(c, QueryDomain)
    \/ \E c \in DOMAIN calls : ListServices(c, QueryDomain)
    \/ \E c \in DOMAIN calls : ListRoutes(c, QueryDomain)
    \/ \E c \in DOMAIN calls : ListConsumers(c, QueryDomain)
    \/ \E c \in DOMAIN calls : ListPlugins(c, QueryDomain)
    \/ \E c \in DOMAIN calls : ListDevPortalApis(c, QueryDomain)
    \/ \E c \in DOMAIN calls : ListDevPortalPortals(c, QueryDomain)
    \/ \E c \in DOMAIN calls : ListDevPortalApplications(c, QueryDomain)
    \/ \E c \in DOMAIN calls : ListDevPortalSubscriptions(c, QueryDomain)
    \/ \E c \in DOMAIN calls : Resolve(c, {AnObject})
    \/ \E c \in DOMAIN calls : Settle(c)

SpecQuery == InitQuery /\ [][NextQuery]_vars

----------------------------------------------------------------------------
(* SpecClient: one caller on a client of any configuration, every kind of
   request body and every kind of failure; the host lists the catalog *)

\* a plain-text body of n characters
RECURSIVE TextFrom(_, _)
TextFrom(lo, hi) ==
    IF lo > hi THEN ""
    ELSE IF lo = hi THEN At("abc", (lo % 3) + 1)
    ELSE LET mid == (lo + hi) \div 2 IN TextFrom(lo, mid) \o TextFrom(mid + 1, hi)

TextOf(n) == TextFrom(1, n)

BeyondLimit == 30

TextLengths == {0, 1, ExcerptLimit - 1, ExcerptLimit, ExcerptLimit + 1, ExcerptLimit + BeyondLimit}

ErrorBodies ==
    {AnObject,
     JObj(<<FStr("message", "a \"b\""), FNum("code", 7)>>),
     JObj(<<FStr("message", ""), FNum("code", 7)>>),
     JObj(<<FNum("message", 5)>>),
     JObj(<<FNum("message", 0)>>),
     JObj(<<FStr("error", "denied")>>),
     JObj(<<>>),
     JNull, JNum(3), JBool(FALSE), JUndefined}
    \cup {JStr(TextOf(n)) : n \in TextLengths}

ClientRequests ==
    {<<"/v3/apis", "GET", JUndefined>>,
     <<"/v3", "GET", JNull>>,
     <<"/control-planes", "GET", JUndefined>>,
     <<"/v2/x", "GET", JUndefined>>,
     <<"/api-requests", "POST", AnObject>>,
     <<"/api-requests", "POST", JObj(<<>>)>>,
     <<"/api-requests", "POST", JNum(0)>>,
     <<"/api-requests", "POST", JNum(3)>>,
     <<"/api-requests", "POST", JStr("")>>,
     <<"/api-requests", "POST", JStr("a")>>,
     <<"/api-requests", "POST", JBool(FALSE)>>,
     <<"/api-requests", "POST", JBool(TRUE)>>}

InitClient ==
    \E optRegion \in {UndefStr, Given(""), Given("eu"), Given("v2")},
       envRegion \in {UndefStr, Given("au")},
       optKey \in {UndefStr, Given(""), Given("k")},
       envKey \in {UndefStr, Given("e")} :
        Construct(optRegion, envRegion, optKey, envKey, {1})

NextClient ==
    \/ \E c \in DOMAIN calls : KongRequest(c, ClientRequests)
    \/ \E c \in DOMAIN calls : CreateDevPortalApplication(c, SmallDomain)
    \/ \E c \in DOMAIN calls : ListDevPortalPortals(c, SmallDomain)
    \/ \E c \in DOMAIN calls : Resolve(c, {AnObject, JNull, JUndefined})
    \/ \E c \in DOMAIN calls : RejectWithResponse(c, {401, 500}, ErrorBodies)
    \/ \E c \in DOMAIN calls : RejectNoResponse(c)
    \/ \E c \in DOMAIN calls : RejectNotSent(c)
    \/ \E c \in DOMAIN calls : Settle(c)
    \/ ListTools
    \/ DropCatalogs

SpecClient == InitClient /\ [][NextClient]_vars

----------------------------------------------------------------------------
(* The query string of a request, read back as a server reads it *)

ListOps ==
    {"listControlPlanes", "listControlPlaneGroupMemberships", "listServices",
     "listRoutes", "listConsumers", "listPlugins", "listDevPortalApis",
     "listDevPortalPortals", "listDevPortalApplications", "listDevPortalSubscriptions"}

CountChar(s, ch) == Cardinality({i \in 1..Len(s) : At(s, i) = ch})

\* the pieces of s between the occurrences of ch
RECURSIVE SplitAt(_, _)
SplitAt(s, ch) ==
    LET hits == {i \in 1..Len(s) : At(s, i) = ch}
    IN  IF hits = {} THEN <<s>>
        ELSE LET i == CHOOSE x \in hits : \A y \in hits : x <= y
             IN  <<SubSeq(s, 1, i - 1)>> \o SplitAt(SubSeq(s, i + 1, Len(s)), ch)

\* what follows the first "?" of the endpoint
QueryOf(endpoint) ==
    LET parts == SplitAt(endpoint, "?") IN SubSeq(endpoint, Len(parts[1]) + 2, Len(endpoint))

\* the key=value segments of the query
Segments(endpoint) == SplitAt(QueryOf(endpoint), "&")

\* a segment's key: what precedes its first "="
KeyOf(segment) == SplitAt(segment, "=")[1]

HasKey(endpoint, key) ==
    \E i \in 1..Len(Segments(endpoint)) :
        LET g == Segments(endpoint)[i] IN CountChar(g, "=") > 0 /\ KeyOf(g) = key

\* the first segment with the key
KeyAt(endpoint, key) ==
    CHOOSE i \in 1..Len(Segments(endpoint)) :
        /\ KeyOf(Segments(endpoint)[i]) = key
        /\ \A j \in 1..(i - 1) : KeyOf(Segments(endpoint)[j]) # key

\* An optional argument of an operation: its field in the call's arguments,
\* its query key, its type, its default (when the parameter list gives one)
\* and whether the code passes its value through encodeURIComponent.
Param(f, k, kind, d, enc) == [f |-> f, k |-> k, kind |-> kind, d |-> d, enc |-> enc]

PageSize   == Param("pageSize", "page[size]", "number", Given(DefaultPageSize), FALSE)
PageNumber == Param("pageNumber", "page[number]", "number", UndefNum, FALSE)
FilterName == Param("filterName", "filter[name][contains]", "string", UndefNum, TRUE)
Sort       == Param("sort", "sort", "string", UndefNum, TRUE)
Size       == Param("pageSize", "size", "number", Given(DefaultSize), FALSE)
Offset     == Param("cursor", "offset", "string", UndefNum, FALSE)

\* the optional arguments of each operation, in the order its parameter list
\* declares them
Declared(op) ==
    CASE op = "listControlPlanes" ->
            <<PageSize, PageNumber, FilterName,
              Param("filterClusterType", "filter[cluster_type][eq]", "string", UndefNum, TRUE),
              Param("filterFlag", "filter[cloud_gateway]", "boolean", UndefNum, FALSE),
              Param("labels", "labels", "string", UndefNum, TRUE), Sort>>
      [] op = "listControlPlaneGroupMemberships" ->
            <<PageSize, Param("cursor", "page[after]", "string", UndefNum, FALSE)>>
      [] op \in {"listServices", "listRoutes", "listConsumers", "listPlugins"} ->
            <<Size, Offset>>
      [] op = "listDevPortalApis" ->
            <<PageSize, PageNumber, FilterName,
              Param("filterFlag", "filter[published]", "boolean", UndefNum, FALSE), Sort>>
      [] op = "listDevPortalPortals" -> <<PageSize, PageNumber>>
      [] op = "listDevPortalApplications" -> <<PageSize, PageNumber, FilterName, Sort>>
      [] op = "listDevPortalSubscriptions" ->
            <<Param("applicationId", "filter[application.id][eq]", "string", UndefNum, FALSE),
              Param("apiId", "filter[api.id][eq]", "string", UndefNum, FALSE),
              PageSize, PageNumber,
              Param("status", "filter[status][eq]", "string", UndefNum, FALSE), Sort>>
      [] OTHER -> <<>>

\* the caller passed the argument, or the parameter list gives it a default
Provided(p, a) == a[p.f].def \/ p.d.def

\* the code's condition for appending the argument's pair
Placed(p, a) ==
    CASE p.d.def            -> TRUE
      [] p.kind = "number"  -> TruthyNum(a[p.f])
      [] p.kind = "boolean" -> a[p.f].def
      [] OTHER              -> TruthyStr(a[p.f])

\* the pair the code appends for the argument, without its leading "&"
Pair(p, a) ==
    p.k \o "=" \o
    (CASE p.kind = "number"  -> NumToStr(Default(a[p.f], p.d.v))
       [] p.kind = "boolean" -> BoolText(a[p.f].v)
       [] OTHER              -> IF p.enc THEN encodeURIComponent(a[p.f].v) ELSE a[p.f].v)

\* the calls that built a query string
QueryCalls == {c \in DOMAIN calls : calls[c].pc # "idle" /\ calls[c].op \in ListOps}

----------------------------------------------------------------------------
(* Claims about the query string *)

\* C1: the query string of every query-building operation holds a key=value
\* pair for a parameter if and only if the caller provided that parameter (a
\* parameter with a default counts as provided), has exactly one "?" and has
\* no empty segment.
PairsExactlyForProvided ==
    \A c \in QueryCalls :
        LET e == calls[c].endpoint
            a == calls[c].args
            ps == Declared(calls[c].op)
        IN  /\ CountChar(e, "?") = 1
            /\ \A i \in 1..Len(Segments(e)) : Segments(e)[i] # ""
            /\ \A i \in 1..Len(ps) : HasKey(e, ps[i].k) <=> Provided(ps[i], a)

\* the text arguments of the call hold no query separator
CleanArgs(c) ==
    \A i \in 1..Len(Declared(calls[c].op)) :
        LET p == Declared(calls[c].op)[i]
        IN  p.kind = "string" => CountChar(calls[c].args[p.f].v, "&") = 0

EmissionOrder(op) ==
    LET d == Declared(op)
    IN  IF op = "listDevPortalSubscriptions"
        THEN <<d[3], d[4], d[1], d[2], d[5], d[6]>>
        ELSE d

RECURSIVE JoinPairs(_, _)
JoinPairs(ps, a) ==
    IF ps = <<>> THEN ""
    ELSE LET rest == JoinPairs(Tail(ps), a)
         IN  IF ~Placed(Head(ps), a) THEN rest
             ELSE Pair(Head(ps), a) \o (IF rest = "" THEN "" ELSE "&" \o rest)

FreeTextIsEncoded ==
    \A c \in QueryCalls :
        LET e == calls[c].endpoint
            a == calls[c].args
            ps == Declared(calls[c].op)
            segs == Segments(e)
        IN  /\ \A i \in 1..Len(ps) :
                  (ps[i].kind = "string" /\ Placed(ps[i], a)) =>
                      \E n \in 1..Len(segs) :
                          segs[n] = ps[i].k \o "=" \o encodeURIComponent(a[ps[i].f].v)
            /\ \A n \in 1..Len(segs) :
                  \E i \in 1..Len(ps) : KeyOf(segs[n]) = ps[i].k /\ Provided(ps[i], a)

----------------------------------------------------------------------------
(* Claims about kongRequest *)

Made == {c \in DOMAIN calls : calls[c].pc # "idle"}
Failed == {c \in DOMAIN calls : calls[c].pc = "failed"}

HostOf(region) == "https://" \o region \o ".api.konghq.com"

\* C3: a request to a path beginning with /v3 goes to https://{region}.api.konghq.com
\* followed by the unchanged path, and any other request to
\* https://{region}.api.konghq.com/v2 followed by the path.
UrlKeepsHostAndVersion ==
    \A c \in Made :
        calls[c].request.url =
            HostOf(built.region)
                \o (IF StartsWith(calls[c].endpoint, V3) THEN "" ELSE V2)
                \o calls[c].endpoint

\* the three kinds of error, told apart by the error's text
IsRemoteError(e, status) ==
    e.name = "Error" /\ StartsWith(e.message, ApiErrorPrefix \o NumToStr(status) \o ")")
IsNetworkError(e) == e.name = "Error" /\ e.message = NetworkErrorText
IsRequestError(e, text) ==
    e.name = "Error" /\ e.message = RequestErrorPrefix \o text \o RequestErrorSuffix

\* C4: a failed call raises an error of exactly the kind its failure selects:
\* a remote error when a response was received, whatever its body, a
\* no-response error when the request was sent and nothing arrived, a request
\* error otherwise.
FailureIsOneOfThreeKinds ==
    \A c \in Failed :
        LET e == calls[c].error
            x == calls[c].cause
        IN  /\ x.response => IsRemoteError(e, x.status)
            /\ (~x.response /\ x.request) => IsNetworkError(e)
            /\ (~x.response /\ ~x.request) => IsRequestError(e, x.message)
            /\ Cardinality({k \in {"remote", "network", "request"} :
                    \/ k = "remote" /\ StartsWith(e.message, ApiErrorPrefix)
                    \/ k = "network" /\ IsNetworkError(e)
                    \/ k = "request" /\ StartsWith(e.message, RequestErrorPrefix)}) = 1

\* the object has a message field whose value is truthy
HasUsableMessage(d) == d.t = "object" /\ Truthy(MessageOf(d))

StatusText(c) == ApiErrorPrefix \o NumToStr(calls[c].cause.status) \o ")"

\* C5: the text of the error raised for a non-2xx response includes the status
\* code and: the message of an object body that has a usable one; the
\* serialized body of an object without one; for a plain-text body, its first
\* min(200, length) characters and no more.
RemoteErrorCarriesStatusAndBody ==
    \A c \in Failed :
        LET d == calls[c].cause.data
            m == calls[c].error.message
        IN  (calls[c].cause.response /\ d.t \in {"object", "string"}) =>
                /\ Includes(m, NumToStr(calls[c].cause.status))
                /\ HasUsableMessage(d) => Includes(m, ToText(MessageOf(d)))
                /\ (d.t = "object" /\ ~HasUsableMessage(d)) => Includes(m, JsonStringify(d))
                /\ d.t = "string" =>
                      /\ m = StatusText(c) \o ": " \o SubSeq(d.s, 1, Min(ExcerptLimit, Len(d.s)))
                      /\ Len(m) - Len(StatusText(c) \o ": ") = Min(ExcerptLimit, Len(d.s))

\* C5 witness: a plain-text body longer than 200 characters was embedded as
\* exactly 200 characters.
LongTextWasTruncated ==
    \E c \in Failed :
        /\ calls[c].cause.response
        /\ calls[c].cause.data.t = "string"
        /\ Len(calls[c].cause.data.s) > ExcerptLimit
        /\ Len(calls[c].error.message) = Len(StatusText(c)) + 2 + ExcerptLimit

\* C7: the request carries a body if and only if the caller passed one other
\* than null, the body it carries is the value passed, and its headers are
\* the bearer credential and the two JSON content types.
BodyIffProvided ==
    \A c \in Made :
        /\ (calls[c].data.t \notin {"undefined", "null"})
              <=> (calls[c].request.data.t # "undefined")
        /\ calls[c].request.data.t # "undefined" => calls[c].request.data = calls[c].data
        /\ calls[c].request.headers =
              [Authorization |-> "Bearer " \o built.apiKey,
               ContentType |-> "application/json", Accept |-> "application/json"]

\* C8: on a client built without a credential (a warning, no exception) every
\* call is sent with an empty bearer credential, and when the service answers
\* the call's failure is a remote error.
NoCredentialFailsRemotely ==
    built.apiKey = "" =>
        /\ built.warned
        /\ \A c \in Made :
              /\ calls[c].request.headers.Authorization = "Bearer "
              /\ (calls[c].pc = "failed" /\ calls[c].cause.response)
                    => IsRemoteError(calls[c].error, calls[c].cause.status)

\* C10: the stored base URL and credential are the constructor's, and every
\* request's URL and headers are those of the constructor's configuration and
\* the call's own endpoint, whatever other calls are in flight or have failed.
ConfigurationIsImmutable ==
    /\ baseUrl = built.baseUrl
    /\ apiKey = built.apiKey
    /\ \A c \in Made :
          /\ calls[c].request.url = RequestUrl(built.baseUrl, calls[c].endpoint)
          /\ calls[c].request.headers = RequestHeaders(built.apiKey)

\* C10 witness: a /v3 request is in flight while a /v2 request has failed and
\* a later /v2 request has been issued.
VersionsOverlap ==
    \E c, d \in DOMAIN calls :
        /\ c # d
        /\ calls[c].pc = "awaiting" /\ StartsWith(calls[c].endpoint, V3)
        /\ calls[d].pc = "failed" /\ ~StartsWith(calls[d].endpoint, V3)

----------------------------------------------------------------------------
(* Claims about the catalog *)

CategoryRank(category) ==
    CASE category = "analytics"      -> 1
      [] category = "configuration"  -> 2
      [] category = "control_planes" -> 3
      [] category = "dev_portal"     -> 4
      [] OTHER                       -> 0

====
